---- MODULE Spec2Model ----
(***************************************************************************)
(* Model of scheduler.c: a discrete-event simulation of a single-CPU       *)
(* scheduler.  One run of main's loop                                      *)
(*     while((t = get_next_move(all, ready, running, waiting, terminated,  *)
(*                              t, SORT)) != INVALID_MOVE);                *)
(* is modelled for one parsed input file and one sorting policy.           *)
(***************************************************************************)
EXTENDS Integers, Sequences, FiniteSets, TLC

(***************************************************************************)
(* Bounds of the model.                                                    *)
(***************************************************************************)
\* width in bits of the machine integer `int` used by the model
IntBits == 8
\* largest raw "total cpu time" field of an input record
MaxTotal == 2

(***************************************************************************)
(* Program constants (#define lines of scheduler.c).                       *)
(***************************************************************************)
INITIAL_TIME == 0
READY_STATE == 1
RUNNING_STATE == 2
WAITING_STATE == 3
TERMINATED_STATE == 4
NEW_STATE == 5
INVALID_MOVE == -1
NEW_TO_READY == 1
RUNNING_TO_READY == 6
WAITING_TO_READY == 5
RUNNING_TO_TERMINATED == 3
RUNNING_TO_WAITING == 4
READY_TO_RUNNING == 2
FCFS_SORT == 0
SJF_SORT == 1
SRTF_SORT == 2

\* <limits.h> INT_MAX for an int of IntBits bits
INT_MAX == 2^(IntBits - 1) - 1

\* the number of values of an int, and the least of them
IntRange == 2^IntBits
INT_MIN == -(2^(IntBits - 1))

\* int addition as the build performs it: two's complement, wrapping
IntAdd(a, b) == ((a + b - INT_MIN) % IntRange) + INT_MIN

\* glib macros MIN and MAX
MIN(a, b) == IF a < b THEN a ELSE b
MAX(a, b) == IF a > b THEN a ELSE b

(***************************************************************************)
(* Raw fields of the input records read by fscanf in parse_file.           *)
(***************************************************************************)
StartVals == {0, 1}
TotalVals == 0..MaxTotal
IoFreqVals == {0, 1, 2}
IoDurVals == {0, 1, 3}
RRVals == {0, 1}
SortVals == {FCFS_SORT, SJF_SORT, SRTF_SORT}
\* values an uninitialised int of a malloc'ed struct may hold
Garbage == {-1, 0, 5}

\* the records of the input files: a record without I/O (io frequency 0) has
\* io duration 0, as in "1,0,5,0,0,0"
RawRecords ==
    {r \in [start : StartVals, total : TotalVals, iofreq : IoFreqVals,
            iodur : IoDurVals, rr : RRVals] : r.iofreq = 0 => r.iodur = 0}
\* the numbers of records of the input files
RecordCounts == {1, 2}
Inputs == UNION {[1..n -> RawRecords] : n \in RecordCounts}

VARIABLES
    all,         \* GQueue * all: the New queue, a sequence of process ids
    ready,       \* GQueue * ready
    running,     \* GQueue * running
    waiting,     \* GQueue * waiting
    terminated,  \* GQueue * terminated
    proc,        \* the heap: process id -> struct process
    t,           \* main's int t
    sort,        \* the sorting policy the run passes to get_next_move
    trace,       \* the lines write_update appended to the output file
    pc           \* "loop" while main's while loop runs, "exit" after it

vars == <<all, ready, running, waiting, terminated, proc, t, sort, trace, pc>>

(***************************************************************************)
(* The heap and the queues.                                                *)
(***************************************************************************)
\* the content of an int field that was never assigned; it lies outside the
\* range of int, so no assigned value equals it
UNINIT == 2^(IntBits - 1)

\* the value a read of an int field yields: g when the field was never assigned
ReadInt(v, g) == IF v = UNINIT THEN g ELSE v

\* process_new: the pid is the number of the record in the input file
process_new(pid, start, total, iofreq, iodur, rr) ==
    [pid |-> pid, start |-> start, total |-> total, iofreq |-> iofreq,
     iodur |-> iodur, remaining |-> total, rr |-> rr,
     last_start |-> UNINIT, last_io_start |-> UNINIT]

\* the comparators sort_fcfs, sort_sjf and sort_srtf
sort_fcfs(heap, a, b) == heap[a].start - heap[b].start
sort_sjf(heap, a, b) == heap[a].total - heap[b].total
sort_srtf(heap, a, b) == heap[a].remaining - heap[b].remaining

\* the comparator a sorting code selects
Compare(kind, heap, a, b) ==
    IF kind = SJF_SORT THEN sort_sjf(heap, a, b)
    ELSE IF kind = SRTF_SORT THEN sort_srtf(heap, a, b)
    ELSE sort_fcfs(heap, a, b)

\* q with x inserted behind every element that does not compare greater than x
RECURSIVE InsertSorted(_, _, _, _)
InsertSorted(kind, heap, q, x) ==
    IF q = <<>> THEN <<x>>
    ELSE IF Compare(kind, heap, Head(q), x) > 0 THEN <<x>> \o q
    ELSE <<Head(q)>> \o InsertSorted(kind, heap, Tail(q), x)

\* g_queue_sort: GLib's stable merge sort of a queue under a comparator
RECURSIVE g_queue_sort(_, _, _)
g_queue_sort(q, kind, heap) ==
    IF q = <<>> THEN <<>>
    ELSE InsertSorted(kind, heap,
                      g_queue_sort(SubSeq(q, 1, Len(q) - 1), kind, heap),
                      q[Len(q)])

\* the clamping of one record in parse_file, and process_new on the result
ParseRecord(i, r) ==
    process_new(i,
                IF r.start < 0 THEN 0 ELSE r.start,
                IF r.total < 0 THEN 0 ELSE r.total,
                IF r.iofreq <= 0 THEN INT_MAX ELSE r.iofreq,
                IF r.iodur <= 0 THEN INT_MAX ELSE r.iodur,
                IF r.rr <= 0 THEN INT_MAX ELSE r.rr)

\* parse_file: the queue after the records i..Len(input) were pushed on q
RECURSIVE ParseLoop(_, _, _)
ParseLoop(input, i, q) ==
    IF i > Len(input) THEN q
    ELSE ParseLoop(input, i + 1, <<i>> \o q)

parse_file(input) ==
    [queue |-> ParseLoop(input, 1, <<>>),
     heap |-> [i \in 1..Len(input) |-> ParseRecord(i, input[i])]]

\* the set of ids of the processes of a queue
Members(q) == {q[i] : i \in 1..Len(q)}

(***************************************************************************)
(* main up to the first call of get_next_move.                             *)
(***************************************************************************)
\* the state in which main enters the loop for one input file and one policy
Start(input, s) ==
    LET parsed == parse_file(input) IN
    /\ all = g_queue_sort(parsed.queue, FCFS_SORT, parsed.heap)
    /\ proc = parsed.heap
    /\ ready = <<>>
    /\ running = <<>>
    /\ waiting = <<>>
    /\ terminated = <<>>
    /\ t = INITIAL_TIME
    /\ sort = s
    /\ trace = <<>>
    /\ pc = "loop"

Init ==
    \E input \in Inputs, s \in SortVals : Start(input, s)

(***************************************************************************)
(* execute_move.                                                           *)
(***************************************************************************)
\* the five queues as one record, so that a queue can be passed by name
Queues ==
    [all |-> all, ready |-> ready, running |-> running, waiting |-> waiting,
     terminated |-> terminated]

\* move_process without the pop: the head is pushed but stays in queue from
move_process_no_pop(qs, from, to) ==
    [qs EXCEPT ![to] = Append(qs[to], Head(qs[from]))]

\* move_process with g_queue_push_head in place of g_queue_push_tail
move_process_push_head(qs, from, to) ==
    [qs EXCEPT ![from] = Tail(qs[from]), ![to] = <<Head(qs[from])>> \o qs[to]]

\* move_process: the head of queue from becomes the tail of queue to
move_process(qs, from, to) ==
    [qs EXCEPT ![from] = Tail(qs[from]), ![to] = Append(qs[to], Head(qs[from]))]

\* the line write_update appends to the output file
write_update(tot, pid, old, new) ==
    [time |-> tot, pid |-> pid, old |-> old, new |-> new]

\* execute_move without the re-sort
SortAfterMove_none(q, must_sort, heap) == q

\* the re-sort of queue to that ends execute_move
SortAfterMove(q, must_sort, heap) ==
    IF must_sort /\ sort = SJF_SORT THEN g_queue_sort(q, SJF_SORT, heap)
    ELSE IF must_sort /\ sort = SRTF_SORT THEN g_queue_sort(q, SRTF_SORT, heap)
    ELSE q

\* the switch of execute_move with a running -> terminated case that leaves
\* the remaining time as it is
Bookkeeping_keep_remaining(move, hd, tl, current_time) ==
    IF move = READY_TO_RUNNING
    THEN [proc EXCEPT ![hd].last_start = current_time]
    ELSE IF move = RUNNING_TO_WAITING
    THEN [proc EXCEPT ![tl].remaining = proc[tl].remaining - proc[tl].iofreq,
                      ![tl].last_io_start = current_time]
    ELSE IF move = RUNNING_TO_READY
    THEN [proc EXCEPT ![tl].remaining = proc[tl].remaining - proc[tl].rr]
    ELSE proc

\* the switch of execute_move with a running -> waiting case that does not
\* call set_tail_io_start
Bookkeeping_no_io_start(move, hd, tl, current_time) ==
    IF move = READY_TO_RUNNING
    THEN [proc EXCEPT ![hd].last_start = current_time]
    ELSE IF move = RUNNING_TO_TERMINATED
    THEN [proc EXCEPT ![tl].remaining = 0]
    ELSE IF move = RUNNING_TO_WAITING
    THEN [proc EXCEPT ![tl].remaining = proc[tl].remaining - proc[tl].iofreq]
    ELSE IF move = RUNNING_TO_READY
    THEN [proc EXCEPT ![tl].remaining = proc[tl].remaining - proc[tl].rr]
    ELSE proc

\* the switch of execute_move with a running -> ready case that subtracts
\* the io frequency in place of the quantum
Bookkeeping_rr_subtracts_iofreq(move, hd, tl, current_time) ==
    IF move = READY_TO_RUNNING
    THEN [proc EXCEPT ![hd].last_start = current_time]
    ELSE IF move = RUNNING_TO_TERMINATED
    THEN [proc EXCEPT ![tl].remaining = 0]
    ELSE IF move = RUNNING_TO_WAITING
    THEN [proc EXCEPT ![tl].remaining = proc[tl].remaining - proc[tl].iofreq,
                      ![tl].last_io_start = current_time]
    ELSE IF move = RUNNING_TO_READY
    THEN [proc EXCEPT ![tl].remaining = proc[tl].remaining - proc[tl].iofreq]
    ELSE proc

\* the switch of execute_move with a ready -> running case that does not
\* call set_head_last_start
Bookkeeping_no_last_start(move, hd, tl, current_time) ==
    IF move = RUNNING_TO_TERMINATED
    THEN [proc EXCEPT ![tl].remaining = 0]
    ELSE IF move = RUNNING_TO_WAITING
    THEN [proc EXCEPT ![tl].remaining = proc[tl].remaining - proc[tl].iofreq,
                      ![tl].last_io_start = current_time]
    ELSE IF move = RUNNING_TO_READY
    THEN [proc EXCEPT ![tl].remaining = proc[tl].remaining - proc[tl].rr]
    ELSE proc

\* the switch of execute_move on the heap: hd and tl are the head and the tail
\* of the destination queue after the move
Bookkeeping(move, hd, tl, current_time) ==
    IF move = READY_TO_RUNNING
    THEN [proc EXCEPT ![hd].last_start = current_time]
    ELSE IF move = RUNNING_TO_TERMINATED
    THEN [proc EXCEPT ![tl].remaining = 0]
    ELSE IF move = RUNNING_TO_WAITING
    THEN [proc EXCEPT ![tl].remaining = proc[tl].remaining - proc[tl].iofreq,
                      ![tl].last_io_start = current_time]
    ELSE IF move = RUNNING_TO_READY
    THEN [proc EXCEPT ![tl].remaining = proc[tl].remaining - proc[tl].rr]
    ELSE proc

\* the old and the new state write_update is given for a move
OldState(move) ==
    IF move = NEW_TO_READY THEN NEW_STATE
    ELSE IF move = READY_TO_RUNNING THEN READY_STATE
    ELSE IF move = WAITING_TO_READY THEN WAITING_STATE
    ELSE RUNNING_STATE

NewState(move) ==
    IF move = READY_TO_RUNNING THEN RUNNING_STATE
    ELSE IF move = RUNNING_TO_TERMINATED THEN TERMINATED_STATE
    ELSE IF move = RUNNING_TO_WAITING THEN WAITING_STATE
    ELSE READY_STATE

\* the moves whose case sets must_sort
MustSort(move) == move \in {NEW_TO_READY, WAITING_TO_READY, RUNNING_TO_READY}

\* execute_move: the queues, the heap and the trace line it leaves
execute_move(from, to, move, current_time) ==
    LET moved == move_process(Queues, from, to)
        tl == moved[to][Len(moved[to])]
        heap == Bookkeeping(move, Head(moved[to]), tl, current_time)
    IN  [qs |-> [moved EXCEPT ![to] = SortAfterMove(moved[to], MustSort(move), heap)],
         heap |-> heap,
         line |-> write_update(current_time, proc[tl].pid, OldState(move),
                               NewState(move))]

(***************************************************************************)
(* get_next_move.                                                          *)
(***************************************************************************)
get_head_start_val(q) == proc[Head(q)].start
get_head_last_start(q, g) == ReadInt(proc[Head(q)].last_start, g)
get_head_iofreq_val(q) == proc[Head(q)].iofreq
get_head_remaining_time(q) == proc[Head(q)].remaining
get_head_last_io_start(q, g) == ReadInt(proc[Head(q)].last_io_start, g)
get_head_iodur(q) == proc[Head(q)].iodur
get_head_rr_freq(q) == proc[Head(q)].rr
get_next_io_time(q, g) == IntAdd(get_head_last_start(q, g), get_head_iofreq_val(q))

\* no clamp at all
Sanitize_none(x) == x

\* the clamp with <= in place of <
Sanitize_le(x) == IF x <= 0 THEN INT_MAX ELSE x

\* "sanitize any addition overflows"
Sanitize(x) == IF x < 0 THEN INT_MAX ELSE x

\* the six candidate times before the clamp; g is what a read of an unassigned
\* field yields
all_to_ready ==
    IF all # <<>> THEN get_head_start_val(all) ELSE INT_MAX

\* ready_to_running without the test that Running is empty
ready_to_running_any_running ==
    IF ready # <<>> THEN MAX(t, get_head_start_val(ready)) ELSE INT_MAX

ready_to_running ==
    IF ready # <<>> /\ running = <<>>
    THEN MAX(t, get_head_start_val(ready)) ELSE INT_MAX

running_to_waiting(g) ==
    IF running # <<>> THEN get_next_io_time(running, g) ELSE INT_MAX

\* running_to_terminated from the time of the last I/O start
running_to_terminated_io_start(g) ==
    IF running # <<>>
    THEN IntAdd(get_head_remaining_time(running), get_head_last_io_start(running, g))
    ELSE INT_MAX

\* running_to_terminated counted from the current time
running_to_terminated_current_time(g) ==
    IF running # <<>>
    THEN IntAdd(get_head_remaining_time(running), t)
    ELSE INT_MAX

running_to_terminated(g) ==
    IF running # <<>>
    THEN IntAdd(get_head_remaining_time(running), get_head_last_start(running, g))
    ELSE INT_MAX

waiting_to_ready(g) ==
    IF waiting # <<>>
    THEN IntAdd(get_head_last_io_start(waiting, g), get_head_iodur(waiting))
    ELSE INT_MAX

running_to_ready(g) ==
    IF running # <<>>
    THEN IntAdd(get_head_last_start(running, g), get_head_rr_freq(running))
    ELSE INT_MAX

\* the six candidate times after the clamp
CandidateTimes(g) ==
    [all_to_ready |-> Sanitize(all_to_ready),
     ready_to_running |-> Sanitize(ready_to_running),
     running_to_waiting |-> Sanitize(running_to_waiting(g)),
     running_to_terminated |-> Sanitize(running_to_terminated(g)),
     waiting_to_ready |-> Sanitize(waiting_to_ready(g)),
     running_to_ready |-> Sanitize(running_to_ready(g))]

\* int min = MIN(MIN(MIN(MIN(MIN(...
MinTime(c) ==
    LET m1 == MIN(c.all_to_ready, c.ready_to_running)
        m2 == MIN(m1, c.running_to_terminated)
        m3 == MIN(m2, c.running_to_waiting)
        m4 == MIN(m3, c.waiting_to_ready)
    IN  MIN(m4, c.running_to_ready)

\* the chain with the ready -> running test moved to the front
SelectMove_ready_first(c, min) ==
    IF min = INT_MAX THEN [move |-> INVALID_MOVE, from |-> "", to |-> ""]
    ELSE IF min = c.ready_to_running
    THEN [move |-> READY_TO_RUNNING, from |-> "ready", to |-> "running"]
    ELSE IF min = c.waiting_to_ready
    THEN [move |-> WAITING_TO_READY, from |-> "waiting", to |-> "ready"]
    ELSE IF min = c.all_to_ready
    THEN [move |-> NEW_TO_READY, from |-> "all", to |-> "ready"]
    ELSE IF min = c.running_to_ready
    THEN [move |-> RUNNING_TO_READY, from |-> "running", to |-> "ready"]
    ELSE IF min = c.running_to_waiting
    THEN [move |-> RUNNING_TO_WAITING, from |-> "running", to |-> "waiting"]
    ELSE IF min = c.running_to_terminated
    THEN [move |-> RUNNING_TO_TERMINATED, from |-> "running", to |-> "terminated"]
    ELSE [move |-> INVALID_MOVE, from |-> "", to |-> ""]

\* the chain with a waiting -> ready case that moves from Terminated
SelectMove_from_terminated(c, min) ==
    IF min = INT_MAX THEN [move |-> INVALID_MOVE, from |-> "", to |-> ""]
    ELSE IF min = c.waiting_to_ready
    THEN [move |-> WAITING_TO_READY,
          from |-> IF terminated # <<>> THEN "terminated" ELSE "waiting",
          to |-> "ready"]
    ELSE IF min = c.all_to_ready
    THEN [move |-> NEW_TO_READY, from |-> "all", to |-> "ready"]
    ELSE IF min = c.running_to_ready
    THEN [move |-> RUNNING_TO_READY, from |-> "running", to |-> "ready"]
    ELSE IF min = c.running_to_waiting
    THEN [move |-> RUNNING_TO_WAITING, from |-> "running", to |-> "waiting"]
    ELSE IF min = c.running_to_terminated
    THEN [move |-> RUNNING_TO_TERMINATED, from |-> "running", to |-> "terminated"]
    ELSE IF min = c.ready_to_running
    THEN [move |-> READY_TO_RUNNING, from |-> "ready", to |-> "running"]
    ELSE [move |-> INVALID_MOVE, from |-> "", to |-> ""]

\* the chain without its first test, if(min == INT_MAX) return move
SelectMove_no_infinite_test(c, min) ==
    IF min = c.waiting_to_ready
    THEN [move |-> WAITING_TO_READY, from |-> "waiting", to |-> "ready"]
    ELSE IF min = c.all_to_ready
    THEN [move |-> NEW_TO_READY, from |-> "all", to |-> "ready"]
    ELSE IF min = c.running_to_ready
    THEN [move |-> RUNNING_TO_READY, from |-> "running", to |-> "ready"]
    ELSE IF min = c.running_to_waiting
    THEN [move |-> RUNNING_TO_WAITING, from |-> "running", to |-> "waiting"]
    ELSE IF min = c.running_to_terminated
    THEN [move |-> RUNNING_TO_TERMINATED, from |-> "running", to |-> "terminated"]
    ELSE IF min = c.ready_to_running
    THEN [move |-> READY_TO_RUNNING, from |-> "ready", to |-> "running"]
    ELSE [move |-> INVALID_MOVE, from |-> "", to |-> ""]

\* the if / else-if chain that picks the move, its source and its destination
SelectMove(c, min) ==
    IF min = INT_MAX THEN [move |-> INVALID_MOVE, from |-> "", to |-> ""]
    ELSE IF min = c.waiting_to_ready
    THEN [move |-> WAITING_TO_READY, from |-> "waiting", to |-> "ready"]
    ELSE IF min = c.all_to_ready
    THEN [move |-> NEW_TO_READY, from |-> "all", to |-> "ready"]
    ELSE IF min = c.running_to_ready
    THEN [move |-> RUNNING_TO_READY, from |-> "running", to |-> "ready"]
    ELSE IF min = c.running_to_waiting
    THEN [move |-> RUNNING_TO_WAITING, from |-> "running", to |-> "waiting"]
    ELSE IF min = c.running_to_terminated
    THEN [move |-> RUNNING_TO_TERMINATED, from |-> "running", to |-> "terminated"]
    ELSE IF min = c.ready_to_running
    THEN [move |-> READY_TO_RUNNING, from |-> "ready", to |-> "running"]
    ELSE [move |-> INVALID_MOVE, from |-> "", to |-> ""]

\* the rest of get_next_move once the move is picked: the value it returns
\* and the state it leaves
Outcome(sel, min) ==
    IF sel.move = INVALID_MOVE
    THEN [move |-> INVALID_MOVE, ret |-> INVALID_MOVE, qs |-> Queues,
          heap |-> proc, lines |-> trace]
    ELSE LET x == execute_move(sel.from, sel.to, sel.move, min)
         IN  [move |-> sel.move, ret |-> min, qs |-> x.qs, heap |-> x.heap,
              lines |-> Append(trace, x.line)]

\* get_next_move(all, ready, running, waiting, terminated, t, sort)
get_next_move(g) ==
    LET c == CandidateTimes(g)
        min == MinTime(c)
    IN  Outcome(SelectMove(c, min), min)

(***************************************************************************)
(* One iteration of main's while loop, by the move get_next_move makes.    *)
(***************************************************************************)
\* the values the reads of unassigned fields may yield in the next call: one
\* value stands for all when the call reads no unassigned field
GarbageRead ==
    IF \/ running # <<>> /\ proc[Head(running)].last_start = UNINIT
       \/ waiting # <<>> /\ proc[Head(waiting)].last_io_start = UNINIT
    THEN Garbage ELSE {0}

\* assert(current_time >= 0) on entry of get_next_move
AssertTime == t >= 0

\* assert(!g_queue_is_empty(from)) in move_process, when a move is made
AssertNotEmpty(sel) == sel.move # INVALID_MOVE => Queues[sel.from] # <<>>

\* the assertions a call of get_next_move passes when it selects sel
AssertionsHold(sel) == AssertTime /\ AssertNotEmpty(sel)

\* the call returns instead of aborting, whatever an unassigned field holds
CallReturns ==
    \A g \in GarbageRead :
    \E c \in {CandidateTimes(g)} :
    \E min \in {MinTime(c)} :
        AssertionsHold(SelectMove(c, min))

\* t = get_next_move(...) where the call makes move m, and the loop test
Iterate(m) ==
    \E g \in GarbageRead :
    \E c \in {CandidateTimes(g)} :
    \E min \in {MinTime(c)} :
    \E sel \in {SelectMove(c, min)} :
        /\ sel.move = m
        /\ AssertionsHold(sel)
        /\ \E r \in {Outcome(sel, min)} :
            /\ all' = r.qs.all
            /\ ready' = r.qs.ready
            /\ running' = r.qs.running
            /\ waiting' = r.qs.waiting
            /\ terminated' = r.qs.terminated
            /\ proc' = r.heap
            /\ trace' = r.lines
            /\ t' = r.ret
            /\ pc' = IF r.ret # INVALID_MOVE THEN "loop" ELSE "exit"
            /\ sort' = sort

NewToReady == pc = "loop" /\ Iterate(NEW_TO_READY)
ReadyToRunning == pc = "loop" /\ Iterate(READY_TO_RUNNING)
RunningToTerminated == pc = "loop" /\ Iterate(RUNNING_TO_TERMINATED)
RunningToWaiting == pc = "loop" /\ Iterate(RUNNING_TO_WAITING)
WaitingToReady == pc = "loop" /\ Iterate(WAITING_TO_READY)
RunningToReady == pc = "loop" /\ Iterate(RUNNING_TO_READY)
NoMove == pc = "loop" /\ Iterate(INVALID_MOVE)

Next ==
    \/ NewToReady
    \/ ReadyToRunning
    \/ RunningToTerminated
    \/ RunningToWaiting
    \/ WaitingToReady
    \/ RunningToReady
    \/ NoMove

Spec == Init /\ [][Next]_vars

\* the input files whose runs are followed to their end: each record has a
\* finite io_duration exactly when it has a finite io_interval
FairInputs ==
    {input \in Inputs :
        \A i \in DOMAIN input : (input[i].iofreq <= 0) = (input[i].iodur <= 0)}

FairInit ==
    \E input \in FairInputs, s \in SortVals : Start(input, s)

\* main's loop calls get_next_move again as long as it returned a move
FairSpec == FairInit /\ [][Next]_vars /\ WF_vars(Next)

\* the records of the input files of three processes: a process without I/O
\* and without quantum, one with a quantum, one with a short I/O and a longer
\* quantum, one with a long I/O
ThinRecords ==
    {r \in [start : StartVals, total : {1, MaxTotal}, iofreq : {0, 1},
            iodur : {0, 1, 4}, rr : {0, 1, 2}] :
        <<r.iofreq, r.iodur, r.rr>>
            \in {<<0, 0, 0>>, <<0, 0, 1>>, <<1, 1, 2>>, <<1, 4, 0>>}}

\* the input file "1,0,5,0,0,0" "2,1,3,0,0,0"
TwoProcessScenario ==
    <<[start |-> 0, total |-> 5, iofreq |-> 0, iodur |-> 0, rr |-> 0],
      [start |-> 1, total |-> 3, iofreq |-> 0, iodur |-> 0, rr |-> 0]>>

Inputs3 == [1..3 -> ThinRecords] \cup {TwoProcessScenario}

Init3 ==
    \E input \in Inputs3, s \in SortVals : Start(input, s)

\* the runs of main's loop on the input files of three processes
Spec3 == Init3 /\ [][Next]_vars

(***************************************************************************)
(* Notions the properties below are stated in.                             *)
(***************************************************************************)
\* the input processes
Procs == DOMAIN proc

\* how often process p occurs in queue q
Occurrences(q, p) == Cardinality({i \in 1..Len(q) : q[i] = p})

\* the state of process p: the queue that holds it (0 when none does)
StateOf(p) ==
    IF p \in Members(all) THEN NEW_STATE
    ELSE IF p \in Members(ready) THEN READY_STATE
    ELSE IF p \in Members(running) THEN RUNNING_STATE
    ELSE IF p \in Members(waiting) THEN WAITING_STATE
    ELSE IF p \in Members(terminated) THEN TERMINATED_STATE
    ELSE 0

\* the last line of the trace
LastLine(tr) == tr[Len(tr)]

\* a step that made a transition from state old to state new
Fired(old, new) ==
    /\ Len(trace') = Len(trace) + 1
    /\ LastLine(trace').old = old
    /\ LastLine(trace').new = new

(***************************************************************************)
(* C1  Conservation.                                                       *)
(***************************************************************************)
\* C1: in every reachable state every input process occurs exactly once in
\* the five queues New, Ready, Running, Waiting, Terminated taken together:
\* none is duplicated, none is lost, and the queues hold nothing else.
Conservation ==
    /\ \A p \in Procs :
        Occurrences(all, p) + Occurrences(ready, p) + Occurrences(running, p)
            + Occurrences(waiting, p) + Occurrences(terminated, p) = 1
    /\ Members(all) \cup Members(ready) \cup Members(running)
        \cup Members(waiting) \cup Members(terminated) = Procs

\* two processes have left New and sit in two different queues, one of them
\* after a full cycle through Running and Waiting
ConservationWitness ==
    /\ all = <<>>
    /\ waiting # <<>>
    /\ terminated # <<>>
    /\ Len(trace) >= 5

(***************************************************************************)
(* C2  Running-queue bound.                                                *)
(***************************************************************************)
\* C2: the Running queue never holds more than one process, and every step
\* that makes a ready->running transition starts in a state where Running
\* is empty.
RunningBound ==
    /\ [](Len(running) <= 1)
    /\ [][Fired(READY_STATE, RUNNING_STATE) => running = <<>>]_vars

\* a process was dispatched while another one was waiting in Ready
RunningBoundWitness ==
    /\ Len(running) = 1
    /\ ready # <<>>
    /\ LastLine(trace).new = RUNNING_STATE

(***************************************************************************)
(* C3  Monotonic time.                                                     *)
(***************************************************************************)
\* C3: the event times successive calls of get_next_move return never
\* decrease.
MonotonicTime == [][t' # INVALID_MOVE => t' >= t]_vars

(***************************************************************************)
(* C4  Termination.                                                        *)
(***************************************************************************)
\* every process that does I/O (finite io_interval) has a finite io_duration;
\* total_burst is finite for every input, and no sum of times overflows
\* within the bounds of the inputs
WellFormedInput ==
    \A p \in Procs : proc[p].iofreq # INT_MAX => proc[p].iodur # INT_MAX

\* Terminated holds every input process and the other queues are empty
AllTerminated ==
    /\ all = <<>>
    /\ ready = <<>>
    /\ running = <<>>
    /\ waiting = <<>>
    /\ Members(terminated) = Procs

\* C4: on a well-formed input the loop of calls of get_next_move eventually
\* gets "no further event" (INVALID_MOVE), and when it does, Terminated holds
\* every input process and New, Ready, Running and Waiting are empty.
Termination ==
    WellFormedInput => <>[](pc = "exit" /\ t = INVALID_MOVE /\ AllTerminated)

\* a run of two processes, one of which did I/O, has ended
TerminationWitness ==
    /\ WellFormedInput
    /\ pc = "exit"
    /\ t = INVALID_MOVE
    /\ Len(terminated) = 2
    /\ \E i \in 1..Len(trace) : trace[i].new = WAITING_STATE

(***************************************************************************)
(* C5  Remaining-burst bounds.                                             *)
(***************************************************************************)
\* the remaining time a transition of process p from state old to state new
\* leaves, as the claim gives it
RemainingAfter(p, old, new) ==
    IF old = RUNNING_STATE /\ new = WAITING_STATE
    THEN proc[p].remaining - proc[p].iofreq
    ELSE IF old = RUNNING_STATE /\ new = READY_STATE
    THEN proc[p].remaining - proc[p].rr
    ELSE IF old = RUNNING_STATE /\ new = TERMINATED_STATE
    THEN 0
    ELSE proc[p].remaining

\* C5: every process always has 0 <= remaining_burst <= total_burst, and no
\* step increases a remaining_burst: running->waiting subtracts io_interval,
\* running->ready subtracts quantum, running->terminated sets it to 0, and
\* every other transition (and every process that does not move) keeps it.
RemainingBounds ==
    /\ [](\A p \in Procs :
            0 <= proc[p].remaining /\ proc[p].remaining <= proc[p].total)
    /\ [][\A p \in Procs :
            /\ proc'[p].remaining <= proc[p].remaining
            /\ proc'[p].remaining = RemainingAfter(p, StateOf(p), StateOf(p)')]_vars

\* one process was preempted and has terminated, another one did I/O, so
\* each of the three subtractions has acted
RemainingBoundsWitness ==
    /\ \E i \in 1..Len(trace) :
        trace[i].old = RUNNING_STATE /\ trace[i].new = READY_STATE
    /\ \E j \in 1..Len(trace) :
        trace[j].old = RUNNING_STATE /\ trace[j].new = WAITING_STATE
    /\ LastLine(trace).new = TERMINATED_STATE
    /\ \E p \in Procs : proc[p].remaining = 0 /\ proc[p].total = MaxTotal

(***************************************************************************)
(* C6  Zero exactly at termination.                                        *)
(***************************************************************************)
\* C6: a process with total_burst > 0 has remaining_burst = 0 if and only if
\* it is in Terminated.
ZeroExactlyAtTermination ==
    \A p \in Procs :
        proc[p].total > 0 =>
            ((proc[p].remaining = 0) <=> (StateOf(p) = TERMINATED_STATE))

(***************************************************************************)
(* The candidate event times as section 4.2 of the specification gives     *)
(* them: "infinite" when not applicable, a sum of two finite times else.   *)
(***************************************************************************)
Infinite == INT_MAX

CandidateTime(move) ==
    IF move = NEW_TO_READY
    THEN IF all # <<>> THEN proc[Head(all)].start ELSE Infinite
    ELSE IF move = READY_TO_RUNNING
    THEN IF ready # <<>> /\ running = <<>>
         THEN (IF t > proc[Head(ready)].start THEN t ELSE proc[Head(ready)].start)
         ELSE Infinite
    ELSE IF move = RUNNING_TO_WAITING
    THEN IF running # <<>> /\ proc[Head(running)].iofreq # Infinite
         THEN proc[Head(running)].last_start + proc[Head(running)].iofreq
         ELSE Infinite
    ELSE IF move = RUNNING_TO_TERMINATED
    THEN IF running # <<>>
         THEN proc[Head(running)].last_start + proc[Head(running)].remaining
         ELSE Infinite
    ELSE IF move = WAITING_TO_READY
    THEN IF waiting # <<>> /\ proc[Head(waiting)].iodur # Infinite
         THEN proc[Head(waiting)].last_io_start + proc[Head(waiting)].iodur
         ELSE Infinite
    ELSE IF running # <<>> /\ proc[Head(running)].rr # Infinite
         THEN proc[Head(running)].last_start + proc[Head(running)].rr
         ELSE Infinite

\* the six transitions in the tie-break order of section 4.2
TieBreak ==
    <<WAITING_TO_READY, NEW_TO_READY, RUNNING_TO_READY, RUNNING_TO_WAITING,
      RUNNING_TO_TERMINATED, READY_TO_RUNNING>>

\* the least of the six candidate times
RECURSIVE LeastFrom(_)
LeastFrom(k) ==
    IF k = 6 THEN CandidateTime(TieBreak[6])
    ELSE LET a == CandidateTime(TieBreak[k])
             b == LeastFrom(k + 1)
         IN  IF a <= b THEN a ELSE b

LeastCandidate == LeastFrom(1)

\* the place in the tie-break order of the transition a trace line records
PlaceOf(line) ==
    CHOOSE k \in 1..6 :
        OldState(TieBreak[k]) = line.old /\ NewState(TieBreak[k]) = line.new

QueueNames == {"all", "ready", "running", "waiting", "terminated"}

\* the step moves the head of one queue into another queue, leaves the other
\* three queues alone and appends one line about that process to the trace
OneTransition ==
    \E from \in QueueNames, to \in QueueNames :
        /\ from # to
        /\ Queues[from] # <<>>
        /\ Queues'[from] = Tail(Queues[from])
        /\ Len(Queues'[to]) = Len(Queues[to]) + 1
        /\ Members(Queues'[to]) = Members(Queues[to]) \cup {Head(Queues[from])}
        /\ \A o \in QueueNames \ {from, to} : Queues'[o] = Queues[o]
        /\ Len(trace') = Len(trace) + 1
        /\ SubSeq(trace', 1, Len(trace)) = trace
        /\ LastLine(trace').pid = proc[Head(Queues[from])].pid
        /\ LastLine(trace').time = t'

\* C8: a call of get_next_move always returns while the loop runs; when
\* some candidate is finite it makes exactly one transition, of the head of
\* its source queue, and returns the least candidate time; when all six are
\* infinite it returns INVALID_MOVE and changes no queue, no process field
\* and no trace line.
Totality ==
    /\ [](pc = "loop" => CallReturns)
    /\ [][\E least \in {LeastCandidate} :
            IF least = Infinite
            THEN /\ t' = INVALID_MOVE
                 /\ UNCHANGED <<all, ready, running, waiting, terminated, proc, trace>>
            ELSE /\ OneTransition
                 /\ t' = least]_vars

\* the loop has ended after transitions, with a process that never left
\* Waiting: both outcomes of a call have happened
TotalityWitness ==
    /\ pc = "exit"
    /\ t = INVALID_MOVE
    /\ waiting # <<>>
    /\ terminated # <<>>

(***************************************************************************)
(* C9  Determinism.                                                        *)
(***************************************************************************)
\* C9: the state and the trace a call of get_next_move leaves are the same
\* whatever the fields no statement has assigned hold: every step is the one
\* successor the queues, the policy and t determine.
Determinism ==
    [][\A g \in Garbage :
        <<all', ready', running', waiting', terminated', proc', trace', t'>>
            = LET r == get_next_move(g)
              IN  <<r.qs.all, r.qs.ready, r.qs.running, r.qs.waiting,
                    r.qs.terminated, r.heap, r.lines, r.ret>>]_vars

\* a process runs that has never done I/O, next to one whose fields
\* last_start and last_io_start were never assigned
DeterminismWitness ==
    /\ running # <<>>
    /\ proc[Head(running)].last_io_start = UNINIT
    /\ ready # <<>>
    /\ proc[Head(ready)].last_start = UNINIT
    /\ Len(trace) >= 3

(***************************************************************************)
(* C10  Legal edges only.                                                  *)
(***************************************************************************)
LegalEdges ==
    {<<NEW_STATE, READY_STATE>>, <<READY_STATE, RUNNING_STATE>>,
     <<RUNNING_STATE, TERMINATED_STATE>>, <<RUNNING_STATE, WAITING_STATE>>,
     <<WAITING_STATE, READY_STATE>>, <<RUNNING_STATE, READY_STATE>>}

\* C10: every change of state of a process is one of the six edges and is
\* the one the trace line of the step records; so no process re-enters New
\* and none leaves Terminated.
LegalEdgesOnly ==
    [][\A p \in Procs :
        StateOf(p)' # StateOf(p) =>
            /\ <<StateOf(p), StateOf(p)'>> \in LegalEdges
            /\ StateOf(p)' # NEW_STATE
            /\ StateOf(p) # TERMINATED_STATE
            /\ Len(trace') = Len(trace) + 1
            /\ LastLine(trace') =
                [time |-> t', pid |-> proc[p].pid, old |-> StateOf(p),
                 new |-> StateOf(p)']]_vars

\* each of the six edges has been taken in one run
LegalEdgesOnlyWitness ==
    \A e \in LegalEdges :
        \E i \in 1..Len(trace) : trace[i].old = e[1] /\ trace[i].new = e[2]

(***************************************************************************)
(* C11  Sorted Ready queue.                                                *)
(***************************************************************************)
\* the place of process p in queue q
Pos(q, p) == CHOOSE i \in 1..Len(q) : q[i] = p

\* the key of process p under the policy of the run, in heap
SortKey(heap, p) ==
    IF sort = SJF_SORT THEN heap[p].total ELSE heap[p].remaining

\* Ready is ascending by the key of the policy
ReadySorted ==
    \A i \in 1..Len(ready) : \A j \in i..Len(ready) :
        SortKey(proc, ready[i]) <= SortKey(proc, ready[j])

\* a step keeps the relative order of the processes that stay in Ready and
\* puts a process it inserts behind every process with the same key
StableInsertion ==
    /\ \A p \in Members(ready) \cap Members(ready') :
        \A q \in Members(ready) \cap Members(ready') :
            Pos(ready, p) < Pos(ready, q) => Pos(ready', p) < Pos(ready', q)
    /\ \A x \in Members(ready') \ Members(ready) :
        \A p \in Members(ready) :
            SortKey(proc', p) = SortKey(proc', x) => Pos(ready', p) < Pos(ready', x)

\* a ready->running step dispatches the head of Ready, whose key is minimal
MinimalDispatch ==
    Fired(READY_STATE, RUNNING_STATE) =>
        /\ running' = <<Head(ready)>>
        /\ \A q \in Members(ready) :
            SortKey(proc, Head(ready)) <= SortKey(proc, q)

\* C11: under SJF Ready is ascending by total_burst and under SRTF ascending
\* by remaining_burst in every state between calls; an insertion keeps the
\* relative order of the processes already in Ready and puts the new one
\* behind every process with the same key; and every ready->running
\* transition under SJF or SRTF dispatches the head of Ready, whose key is
\* minimal in Ready.
SortedReady ==
    /\ [](sort \in {SJF_SORT, SRTF_SORT} => ReadySorted)
    /\ [][(sort \in {SJF_SORT, SRTF_SORT}) => (StableInsertion /\ MinimalDispatch)]_vars

\* under SRTF the process inserted last was sorted in between two others:
\* behind one with the same key and in front of one with a greater key
SortedReadyWitness ==
    /\ sort = SRTF_SORT
    /\ Len(ready) = 3
    /\ LastLine(trace).new = READY_STATE
    /\ LastLine(trace).pid = proc[ready[2]].pid
    /\ SortKey(proc, ready[1]) = SortKey(proc, ready[2])
    /\ SortKey(proc, ready[2]) < SortKey(proc, ready[3])

(***************************************************************************)
(* C12  FIFO Ready under FCFS.                                             *)
(***************************************************************************)
\* the pids of the lines of trace tr that satisfy Test, in the order of tr
PidsOf(tr, Test(_)) ==
    LET sel == SelectSeq(tr, Test)
    IN  [i \in 1..Len(sel) |-> sel[i].pid]

\* the processes in the order they were inserted into Ready, and in the
\* order they were dispatched to Running
InsertedOrder == PidsOf(trace, LAMBDA l : l.new = READY_STATE)
DispatchedOrder == PidsOf(trace, LAMBDA l : l.old = READY_STATE)

\* the pids of the processes of queue q
PidsIn(q) == [i \in 1..Len(q) |-> proc[q[i]].pid]

\* C12: under FCFS Ready is never re-sorted: an insertion (new->ready,
\* waiting->ready or running->ready of a preempted process) appends the
\* process behind every process already in Ready, a dispatch takes the head,
\* and so the processes are dispatched in exactly the order they were
\* inserted.
FifoReady ==
    /\ [](sort = FCFS_SORT => InsertedOrder = DispatchedOrder \o PidsIn(ready))
    /\ [][(sort = FCFS_SORT) =>
            /\ (\E old \in {NEW_STATE, WAITING_STATE, RUNNING_STATE} :
                    Fired(old, READY_STATE)) =>
                    /\ Len(ready') = Len(ready) + 1
                    /\ SubSeq(ready', 1, Len(ready)) = ready
                    /\ proc[ready'[Len(ready')]].pid = LastLine(trace').pid
            /\ Fired(READY_STATE, RUNNING_STATE) =>
                    ready' = Tail(ready) /\ running' = <<Head(ready)>>
            /\ Len(trace') = Len(trace) + 1 /\ LastLine(trace').new \notin
                    {READY_STATE, RUNNING_STATE} => ready' = ready]_vars

\* under FCFS a process preempted by its quantum was re-inserted behind two
\* processes waiting in Ready, after an earlier dispatch from a Ready of
\* several processes
FifoReadyWitness ==
    /\ sort = FCFS_SORT
    /\ Len(ready) = 3
    /\ LastLine(trace).old = RUNNING_STATE
    /\ LastLine(trace).new = READY_STATE
    /\ LastLine(trace).pid = proc[ready[3]].pid
    /\ Len(DispatchedOrder) >= 2

(***************************************************************************)
(* C13  No preemption without a quantum.                                   *)
(***************************************************************************)
\* process p has neither a quantum nor I/O
NeverPreempted(p) == proc[p].rr = Infinite /\ proc[p].iofreq = Infinite

\* the run is the one of the input file "1,0,5,0,0,0" "2,1,3,0,0,0" under
\* FCFS
ScenarioRun ==
    /\ sort = FCFS_SORT
    /\ DOMAIN proc = 1..2
    /\ proc[1].start = 0 /\ proc[1].total = 5 /\ NeverPreempted(1)
    /\ proc[2].start = 1 /\ proc[2].total = 3 /\ NeverPreempted(2)

\* the trace with process 1 running 0..5 and process 2 in Ready from 1 and
\* running 5..8
ScenarioTrace ==
    <<write_update(0, 1, NEW_STATE, READY_STATE),
      write_update(0, 1, READY_STATE, RUNNING_STATE),
      write_update(1, 2, NEW_STATE, READY_STATE),
      write_update(5, 1, RUNNING_STATE, TERMINATED_STATE),
      write_update(5, 2, READY_STATE, RUNNING_STATE),
      write_update(8, 2, RUNNING_STATE, TERMINATED_STATE)>>

\* a step from a state in which p runs either leaves Running and p alone and
\* changes New, Waiting and Ready only, or terminates p at the time it was
\* scheduled plus its remaining burst
StaysUntilTerminated(p) ==
    \/ /\ running' = running
       /\ proc'[p] = proc[p]
       /\ terminated' = terminated
    \/ /\ Fired(RUNNING_STATE, TERMINATED_STATE)
       /\ running' = <<>>
       /\ terminated' = Append(terminated, p)
       /\ LastLine(trace').pid = proc[p].pid
       /\ LastLine(trace').time = proc[p].last_start + proc[p].remaining
       /\ t' = proc[p].last_start + proc[p].remaining

\* C13: under every policy a process without quantum and without I/O that
\* entered Running at time s (its last_start) stays in Running, whatever
\* arrives or completes its I/O, until it makes running->terminated at
\* s + remaining_burst; and the run of "1,0,5,0,0,0" "2,1,3,0,0,0" under FCFS
\* writes process 1 running 0..5, process 2 in Ready from 1, running 5..8.
NoPreemptionWithoutQuantum ==
    /\ [][/\ Fired(READY_STATE, RUNNING_STATE) =>
                proc'[Head(ready)].last_start = LastLine(trace').time
          /\ \A p \in Members(running) :
                NeverPreempted(p) => StaysUntilTerminated(p)]_vars
    /\ [](ScenarioRun /\ pc = "exit" => trace = ScenarioTrace)

\* under SRTF a process without quantum and I/O keeps running although a
\* job with a shorter remaining burst arrived in Ready after it was scheduled
NoPreemptionWithoutQuantumWitness ==
    /\ sort = SRTF_SORT
    /\ running # <<>>
    /\ NeverPreempted(Head(running))
    /\ ready # <<>>
    /\ proc[Head(ready)].remaining < proc[Head(running)].remaining
    /\ LastLine(trace).old = NEW_STATE
    /\ LastLine(trace).time > proc[Head(running)].last_start

(***************************************************************************)
(* C14  I/O cycle.                                                         *)
(***************************************************************************)
\* the running process p does I/O before anything else happens to it: its
\* io_interval is finite and less than its remaining burst and its quantum
DueForIo(p) ==
    /\ proc[p].iofreq # Infinite
    /\ proc[p].remaining > proc[p].iofreq
    /\ proc[p].rr = Infinite \/ proc[p].rr > proc[p].iofreq

\* a step from a state in which p runs leaves p alone or moves it to
\* Waiting at the time it was scheduled plus its io_interval
NextIsIo(p) ==
    \/ /\ running' = running
       /\ proc'[p] = proc[p]
    \/ /\ Fired(RUNNING_STATE, WAITING_STATE)
       /\ p \in Members(waiting')
       /\ LastLine(trace').pid = proc[p].pid
       /\ LastLine(trace').time = proc[p].last_start + proc[p].iofreq
       /\ proc'[p].remaining = proc[p].remaining - proc[p].iofreq
       /\ proc'[p].last_io_start = proc[p].last_start + proc[p].iofreq

\* a step from a state in which p waits leaves p alone or moves it to Ready
\* at the time its I/O started plus its io_duration
NextIsIoDone(p) ==
    \/ /\ p \in Members(waiting')
       /\ proc'[p] = proc[p]
    \/ /\ Fired(WAITING_STATE, READY_STATE)
       /\ p \in Members(ready')
       /\ LastLine(trace').pid = proc[p].pid
       /\ LastLine(trace').time = proc[p].last_io_start + proc[p].iodur

\* C14: a process scheduled at time s (its last_start is the event time of
\* its ready->running) with a finite io_interval i, a remaining burst r > i
\* and a quantum that is infinite or greater than i makes running->waiting
\* at s + i as its next transition, with remaining_burst r - i and
\* last_io_start s + i; and when its io_duration d is finite the transition
\* after that is waiting->ready with event time s + i + d.
IoCycle ==
    [][/\ Fired(READY_STATE, RUNNING_STATE) =>
            proc'[Head(ready)].last_start = t'
       /\ \A p \in Members(running) : DueForIo(p) => NextIsIo(p)
       /\ \A p \in Members(waiting) :
            proc[p].iodur # Infinite => NextIsIoDone(p)]_vars

\* a process with a quantum greater than its io_interval has gone through
\* the cycle: it is back in Ready at s + i + d with its burst cut by i
IoCycleWitness ==
    /\ trace # <<>>
    /\ LastLine(trace).old = WAITING_STATE
    /\ LastLine(trace).new = READY_STATE
    /\ \E p \in Members(ready) :
        /\ proc[p].pid = LastLine(trace).pid
        /\ proc[p].rr # Infinite
        /\ proc[p].rr > proc[p].iofreq
        /\ proc[p].remaining > 0
        /\ proc[p].remaining = proc[p].total - proc[p].iofreq
        /\ LastLine(trace).time =
                proc[p].last_start + proc[p].iofreq + proc[p].iodur

(***************************************************************************)
(* C15  Contention-free I/O.                                               *)
(***************************************************************************)
\* C15: every process that enters Waiting with a finite io_duration makes
\* the waiting->ready transition, whatever else is in Waiting; so when the
\* loop has ended (no call will make a transition any more) no process with
\* a finite io_duration is left in Waiting.
ContentionFreeIo ==
    pc = "exit" => \A p \in Members(waiting) : proc[p].iodur = Infinite

(***************************************************************************)
(* C16  Single CPU in simulated time.                                      *)
(***************************************************************************)
\* the lines of trace tr that start a running stint
Dispatches(tr) == {i \in 1..Len(tr) : tr[i].new = RUNNING_STATE}

\* the line that ends the stint line i starts: the next line of its process
StintEnd(tr, i) ==
    CHOOSE j \in (i + 1)..Len(tr) :
        /\ tr[j].pid = tr[i].pid
        /\ \A k \in (i + 1)..(j - 1) : tr[k].pid # tr[i].pid

\* the completed running stints of tr, each as the pair of its two lines
Stints(tr) ==
    {<<i, StintEnd(tr, i)>> :
        i \in {d \in Dispatches(tr) :
                \E j \in (d + 1)..Len(tr) : tr[j].pid = tr[d].pid}}

\* C16: the running stints of one run, each taken as the interval from the
\* event time of its ready->running to the event time of the transition
\* that ends it, overlap pairwise at most at their endpoints.
SingleCpu ==
    \A a \in Stints(trace) : \A b \in Stints(trace) :
        a # b =>
            \/ trace[a[2]].time <= trace[b[1]].time
            \/ trace[b[2]].time <= trace[a[1]].time

(***************************************************************************)
(* C17  Initial New order.                                                 *)
(***************************************************************************)
\* C17: before the first call of get_next_move New is ascending by
\* arrival_time, and processes with the same arrival_time stand in the
\* order of their records in the input file (the pid is the record number).
InitialNewOrder ==
    (pc = "loop" /\ trace = <<>>) =>
        \A i \in 1..Len(all) : \A j \in (i + 1)..Len(all) :
            /\ proc[all[i]].start <= proc[all[j]].start
            /\ proc[all[i]].start = proc[all[j]].start
                    => proc[all[i]].pid < proc[all[j]].pid

(***************************************************************************)
(* C18  Overflow-safe sentinels.                                           *)
(***************************************************************************)
\* the candidate the code computes from timestamp v and the sentinel is
\* infinite after the clamp, for every timestamp 0 <= v < infinite
SentinelSumInfinite ==
    \A v \in 0..(Infinite - 1) : Sanitize(IntAdd(v, Infinite)) = Infinite

\* C18: with wrapping addition a candidate computed from a sentinel is never
\* selected: running->waiting never fires for a process whose io_interval
\* is infinite, running->ready never for one whose quantum is infinite,
\* waiting->ready never for one whose io_duration is infinite; and for every
\* input with a sentinel field the clamped sum of the sentinel and any
\* timestamp 0 <= v < infinite is infinite.
SentinelSafe ==
    /\ [][/\ Fired(RUNNING_STATE, WAITING_STATE) =>
                proc[Head(running)].iofreq # Infinite
          /\ Fired(RUNNING_STATE, READY_STATE) =>
                proc[Head(running)].rr # Infinite
          /\ Fired(WAITING_STATE, READY_STATE) =>
                proc[Head(waiting)].iodur # Infinite]_vars
    /\ []((trace = <<>> /\ \E p \in Procs :
                Infinite \in {proc[p].iofreq, proc[p].rr, proc[p].iodur})
            => SentinelSumInfinite)

\* the next call adds sentinels to positive timestamps: the running process
\* has neither quantum nor I/O and was scheduled after time 0, and the head
\* of Waiting, whose I/O never ends, entered Waiting after time 0
SentinelSafeWitness ==
    /\ running # <<>>
    /\ NeverPreempted(Head(running))
    /\ proc[Head(running)].last_start > 0
    /\ IntAdd(proc[Head(running)].last_start, proc[Head(running)].rr) < 0
    /\ waiting # <<>>
    /\ proc[Head(waiting)].iodur = Infinite
    /\ IntAdd(proc[Head(waiting)].last_io_start, proc[Head(waiting)].iodur) < 0

(***************************************************************************)
(* C19  I/O after io_interval of CPU time.                                 *)
(***************************************************************************)
\* the time of the line before line n that is about the process of line n:
\* for a line that ends a running stint, the time the stint started
PreviousTime(tr, n) ==
    LET k == CHOOSE i \in 1..(n - 1) :
                /\ tr[i].pid = tr[n].pid
                /\ \A j \in (i + 1)..(n - 1) : tr[j].pid # tr[n].pid
    IN  tr[k].time

\* the CPU time process pid received in the stints the first n lines of tr
\* complete, since it was first scheduled or last returned from Waiting
RECURSIVE CpuSinceIo(_, _, _)
CpuSinceIo(tr, pid, n) ==
    IF n = 0 THEN 0
    ELSE IF tr[n].pid # pid THEN CpuSinceIo(tr, pid, n - 1)
    ELSE IF tr[n].old = WAITING_STATE THEN 0
    ELSE IF tr[n].old = RUNNING_STATE
    THEN (tr[n].time - PreviousTime(tr, n)) + CpuSinceIo(tr, pid, n - 1)
    ELSE CpuSinceIo(tr, pid, n - 1)

\* C19: a process with a finite io_interval i has never received more than
\* i units of CPU time, summed over its running stints, since it was first
\* scheduled or since it last returned from Waiting.
IoAfterInterval ==
    \A p \in Procs :
        proc[p].iofreq # Infinite =>
            CpuSinceIo(trace, proc[p].pid, Len(trace)) <= proc[p].iofreq

(***************************************************************************)
(* C20  CPU-time accounting.                                               *)
(***************************************************************************)
\* the CPU time process pid received in the running stints the first n
\* lines of tr complete
RECURSIVE CpuReceived(_, _, _)
CpuReceived(tr, pid, n) ==
    IF n = 0 THEN 0
    ELSE IF tr[n].pid = pid /\ tr[n].old = RUNNING_STATE
    THEN (tr[n].time - PreviousTime(tr, n)) + CpuReceived(tr, pid, n - 1)
    ELSE CpuReceived(tr, pid, n - 1)

\* C20: in every reachable state, for every process, total_burst minus
\* remaining_burst is the sum of the lengths of its completed running
\* stints; the length of a stint is the event time of the transition that
\* ends it minus last_start, and is what that transition takes from
\* remaining_burst; so a process in Terminated has received its total_burst.
CpuAccounting ==
    /\ [](\A p \in Procs :
            /\ proc[p].total - proc[p].remaining
                    = CpuReceived(trace, proc[p].pid, Len(trace))
            /\ p \in Members(terminated) =>
                    CpuReceived(trace, proc[p].pid, Len(trace)) = proc[p].total)
    /\ [][\A p \in Members(running) :
            running' = <<>> =>
                /\ LastLine(trace').time - proc[p].last_start
                        = proc[p].remaining - proc'[p].remaining
                /\ PreviousTime(trace', Len(trace')) = proc[p].last_start]_vars

\* a run of two processes has ended in which one process was preempted by
\* its quantum and one did I/O, and a process with the largest total burst
\* has received all of it
CpuAccountingWitness ==
    /\ pc = "exit"
    /\ Len(terminated) = 2
    /\ \E i \in 1..Len(trace) :
        trace[i].old = RUNNING_STATE /\ trace[i].new = READY_STATE
    /\ \E j \in 1..Len(trace) :
        trace[j].old = RUNNING_STATE /\ trace[j].new = WAITING_STATE
    /\ \E p \in Procs :
        /\ proc[p].total = MaxTotal
        /\ CpuReceived(trace, proc[p].pid, Len(trace)) = MaxTotal

(***************************************************************************)
(* C21  Per-process causality.                                             *)
(***************************************************************************)
\* the lines of trace tr about process pid, in the order they were written
LinesOf(tr, pid) == SelectSeq(tr, LAMBDA line : line.pid = pid)

\* C21: for each single process the event times of its own successive
\* transitions are non-decreasing; in particular its ready->running never
\* has an event time earlier than the event time of the transition that
\* put it into Ready.
PerProcessCausality ==
    \A p \in Procs :
        \A n \in 2..Len(LinesOf(trace, proc[p].pid)) :
            LinesOf(trace, proc[p].pid)[n - 1].time
                <= LinesOf(trace, proc[p].pid)[n].time

(***************************************************************************)
(* C22  No read of undefined timestamps.                                   *)
(***************************************************************************)
\* the lines of trace tr that put process pid into state new
Entries(tr, pid, new) ==
    SelectSeq(tr, LAMBDA line : line.pid = pid /\ line.new = new)

\* process pid has entered state new, and v is the event time of its latest
\* entry
SetAtLatestEntry(v, tr, pid, new) ==
    /\ Entries(tr, pid, new) # <<>>
    /\ v = LastLine(Entries(tr, pid, new)).time

\* the fields the next call of get_next_move reads are assigned: last_start
\* of the head of Running, last_io_start of the head of Waiting
ReadsAssigned ==
    /\ running # <<>> => proc[Head(running)].last_start # UNINIT
    /\ waiting # <<>> => proc[Head(waiting)].last_io_start # UNINIT

\* C22: process_new leaves last_scheduled_at and last_io_started_at unset:
\* each is unset exactly as long as the process has not made ready->running,
\* respectively running->waiting; get_next_move never reads an unset one,
\* so what it computes does not depend on what unset memory holds; every
\* process in Running has last_scheduled_at set to the event time of its
\* latest ready->running, and every process in Waiting has
\* last_io_started_at set to the event time of its latest running->waiting.
DefinedTimestamps ==
    /\ \A p \in Procs :
        /\ proc[p].last_start = UNINIT
            <=> Entries(trace, proc[p].pid, RUNNING_STATE) = <<>>
        /\ proc[p].last_io_start = UNINIT
            <=> Entries(trace, proc[p].pid, WAITING_STATE) = <<>>
    /\ ReadsAssigned
    /\ \A g \in Garbage : CandidateTimes(g) = CandidateTimes(0)
    /\ \A p \in Members(running) :
        SetAtLatestEntry(proc[p].last_start, trace, proc[p].pid, RUNNING_STATE)
    /\ \A p \in Members(waiting) :
        SetAtLatestEntry(proc[p].last_io_start, trace, proc[p].pid,
                         WAITING_STATE)

\* the next call reads both timestamps: the running process was scheduled
\* for the second time, later than for the first, and has never done I/O,
\* and the head of Waiting entered Waiting after time 0 and was never
\* scheduled again
DefinedTimestampsWitness ==
    /\ pc = "loop"
    /\ running # <<>>
    /\ Len(Entries(trace, proc[Head(running)].pid, RUNNING_STATE)) = 2
    /\ proc[Head(running)].last_start
            > Entries(trace, proc[Head(running)].pid, RUNNING_STATE)[1].time
    /\ proc[Head(running)].last_io_start = UNINIT
    /\ waiting # <<>>
    /\ proc[Head(waiting)].last_io_start > 0
    /\ Len(Entries(trace, proc[Head(waiting)].pid, RUNNING_STATE)) = 1

====
